---- MODULE Spec2Model ----
(***************************************************************************)
(* Model of src/network/client.rs: the DHT client facade.  One Client      *)
(* holds the sending half of the command queue to the network engine, a    *)
(* parallelism limit and a TTL.  fetch_cells_from_dht and insert_into_dht  *)
(* issue GetKadRecord / PutKadRecord commands, each carrying a oneshot     *)
(* reply channel, and aggregate the replies.  The engine on the far side   *)
(* of the queue is the environment: it may answer, answer with an error,   *)
(* drop a reply channel, or drop the command receiver.                     *)
(***************************************************************************)
EXTENDS Integers, Sequences, FiniteSets, TLC

(***************************************************************************)
(* Bounds of the model.                                                    *)
(***************************************************************************)
MaxPositions == 3      \* longest positions list handed to fetch_cells_from_dht
MaxCells == 4          \* longest cells list handed to insert_into_dht
MaxLimit == 2          \* largest configured dht_parallelization_limit
MaxRoundTrip == 3      \* longest batch inserted and fetched back
MaxNodes == 2          \* longest list of nodes handed to bootstrap
MaxStreams == 2        \* most event streams asked for

(***************************************************************************)
(* Program constants (kate_recovery::config, used at client.rs:149).       *)
(***************************************************************************)
COMMITMENT_SIZE == 48
CHUNK_SIZE == 32

(***************************************************************************)
(* Option and Result values.                                               *)
(***************************************************************************)
None == [some |-> FALSE]
Some(v) == [some |-> TRUE, val |-> v]
Ok(v) == [ok |-> TRUE, val |-> v]
Err(e) == [ok |-> FALSE, err |-> e]

(***************************************************************************)
(* Input universes.  A byte vector is a sequence of bytes; Bytes(n, b) is  *)
(* the vector of n bytes b.                                                *)
(***************************************************************************)
Bytes(n, b) == [i \in 1..n |-> b]
Blocks == {7, 17}
Pos(r, c) == [row |-> r, col |-> c]
Positions == {Pos(0, 0), Pos(0, 1), Pos(1, 0)}
SeqsUpTo(S, n) == UNION {[1..k -> S] : k \in 0..n}

(***************************************************************************)
(* Decimal formatting, as format!("{}") does for an unsigned integer: the  *)
(* ASCII codes of the digits, most significant first.  A String is held as *)
(* the sequence of its UTF-8 bytes, so as_bytes().to_vec() keeps it.       *)
(***************************************************************************)
RECURSIVE Decimal(_)
Decimal(n) == IF n < 10 THEN <<48 + n>> ELSE Decimal(n \div 10) \o <<48 + (n % 10)>>

\* Position::reference(block_number): the reference string "row:col:block".
PositionReference(position, block_number) ==
    Decimal(position.row) \o <<58>> \o Decimal(position.col) \o <<58>> \o Decimal(block_number)

\* Cell::reference(block) delegates to its position.
CellReference(cell, block) == PositionReference(cell.position, block)

\* DHTCell::reference
reference(dht_cell, block) == CellReference(dht_cell, block)

(***************************************************************************)
(* DHT records and keys.                                                   *)
(***************************************************************************)
\* Key::from(bytes)
Key(bytes) == bytes

\* Mutant: the key leaves out the block number.
dht_record_without_block(dht_cell, block) ==
    [key |-> Key(Decimal(dht_cell.position.row) \o <<58>> \o Decimal(dht_cell.position.col)),
     value |-> dht_cell.content, publisher |-> None]

\* DHTCell::dht_record: key from the cell's reference, value = the content
\* bytes, no publisher.  (The expiry, now + ttl, plays no part in any get or
\* put of this client and is left out of the record.)
dht_record(dht_cell, block) ==
    [key |-> Key(reference(dht_cell, block)), value |-> dht_cell.content, publisher |-> None]

\* The key fetch_cell_from_dht asks for.
record_key(block_number, position) == Key(PositionReference(position, block_number))

\* A PeerRecord as the engine hands it back.
PeerRecord(record) == [peer |-> None, record |-> record]

\* value.try_into::<[u8; COMMITMENT_SIZE + CHUNK_SIZE]>(): Ok exactly when
\* the vector has that many bytes.
try_into_content(value) ==
    IF Len(value) = COMMITMENT_SIZE + CHUNK_SIZE THEN Ok(value) ELSE Err(value)

\* Mutant: the last record of the list instead of the first.
last_record(peer_records) ==
    IF Len(peer_records) = 0 THEN None ELSE Some(peer_records[Len(peer_records)])

\* peer_records.into_iter().next()
first_record(peer_records) ==
    IF Len(peer_records) = 0 THEN None ELSE Some(peer_records[1])

\* fetch_cell_from_dht, from the result of get_kad_record on: Option<Cell>.
fetch_cell_from_dht(position, result) ==
    IF ~result.ok THEN None
    ELSE LET peer_record == first_record(result.val) IN
         IF ~peer_record.some THEN None
         ELSE LET try_content == try_into_content(peer_record.val.record.value) IN
              IF ~try_content.ok THEN None
              ELSE Some([position |-> position, content |-> try_content.val])

(***************************************************************************)
(* f32 arithmetic of the success ratio.  A finite non-negative f32 is held *)
(* as [num, exp], the number num / 2^exp; NaN is [nan |-> TRUE].  Results  *)
(* are rounded to a 24-bit significand, ties to even.                      *)
(***************************************************************************)
RECURSIVE Pow2(_)
Pow2(n) == IF n = 0 THEN 1 ELSE 2 * Pow2(n - 1)

NaN == [nan |-> TRUE]

\* The one representation of num / 2^exp: num odd or exp = 0.
RECURSIVE F32(_, _)
F32(num, exp) ==
    IF num = 0 THEN [nan |-> FALSE, num |-> 0, exp |-> 0]
    ELSE IF exp > 0 /\ num % 2 = 0 THEN F32(num \div 2, exp - 1)
    ELSE [nan |-> FALSE, num |-> num, exp |-> exp]
F32One == F32(1, 0)

\* a / b rounded to the nearest integer, ties to even.
RoundTiesEven(a, b) ==
    LET q == a \div b
        r == a % b
    IN IF 2 * r > b \/ (2 * r = b /\ q % 2 = 1) THEN q + 1 ELSE q

\* `x as f32` for a usize below 2^24: exact.
usize_as_f32(x) == F32(x, 0)

\* The least t with k * 2^t / n >= 2^23.
RECURSIVE DivExponent(_, _, _)
DivExponent(k, n, t) ==
    IF (k * Pow2(t)) \div n >= Pow2(23) THEN t ELSE DivExponent(k, n, t + 1)

\* a / b in f32, for integer-valued a <= b.
f32_div(a, b) ==
    IF a.nan \/ b.nan THEN NaN
    ELSE IF b.num = 0 THEN NaN          \* 0.0 / 0.0 (a <= b)
    ELSE IF a.num = 0 THEN F32(0, 0)
    ELSE LET t == DivExponent(a.num, b.num, 0)
         IN F32(RoundTiesEven(a.num * Pow2(t), b.num), t)

\* The least s with d / 2^s < 2^24.
RECURSIVE SigShift(_, _)
SigShift(d, s) == IF d \div Pow2(s) < Pow2(24) THEN s ELSE SigShift(d, s + 1)

\* 1.0 - x in f32, for 0 <= x <= 1.
f32_one_minus(x) ==
    IF x.nan THEN NaN
    ELSE LET d == Pow2(x.exp) - x.num
             s == SigShift(d, 0)
         IN F32(RoundTiesEven(d, Pow2(s)) * Pow2(s), x.exp)

\* Mutant: the ratio of failures instead of successes.
failure_ratio(counter, len) == f32_div(usize_as_f32(counter), usize_as_f32(len))

\* Line 238: 1.0 - (counter as f32 / cells.len() as f32)
success_ratio(counter, len) ==
    f32_one_minus(f32_div(usize_as_f32(counter), usize_as_f32(len)))

(***************************************************************************)
(* State.                                                                  *)
(***************************************************************************)
VARIABLES
    dht_parallelization_limit,  \* Client.dht_parallelization_limit
    receiver_alive,             \* the engine still holds the command receiver
    pc,                         \* where the caller of the client is
    sent,                       \* commands sent on the queue during this call
    block_number,               \* fetch_cells_from_dht: argument
    positions,                  \* fetch_cells_from_dht: argument
    gets,                       \* one fetch_cell_from_dht future per position
    chunk_start,                \* positions consumed by finished chunks
    cells,                      \* fetch_cells_from_dht: Vec<Option<Cell>>
    fetched,                    \* fetch_cells_from_dht: first output
    unfetched,                  \* fetch_cells_from_dht: second output
    block,                      \* insert_into_dht: argument
    insert_cells,               \* insert_into_dht: argument `cells`
    puts,                       \* one put future per cell
    failure_counter,            \* insert_into_dht: Arc<Mutex<usize>>
    ratio,                      \* insert_into_dht: return value
    dht,                        \* records the engine stores, by key
    nodes,                      \* bootstrap: argument
    added,                      \* bootstrap: nodes the loop has dealt with
    oneshot,                    \* the reply channel the call is waiting on
    admin_result,               \* return value of the administrative call
    streams                     \* event channels created so far

vars == <<dht_parallelization_limit, receiver_alive, pc, sent, block_number, positions,
          gets, chunk_start, cells, fetched, unfetched, block, insert_cells, puts,
          failure_counter, ratio, dht, nodes, added, oneshot, admin_result, streams>>

fetch_vars == <<block_number, positions, gets, chunk_start, cells, fetched, unfetched>>
insert_vars == <<block, insert_cells, puts, failure_counter, ratio>>
client_vars == <<dht_parallelization_limit, receiver_alive>>
admin_vars == <<nodes, added, oneshot, admin_result, streams>>

\* A future that has not sent its command yet, one waiting for the reply on
\* its oneshot channel, one that get_kad_record / put_kad_record has resolved
\* for, and one that is gone.
Pending == [st |-> "pending"]
InFlight(command) == [st |-> "inflight", command |-> command]
Ready(result) == [st |-> "ready", result |-> result]
Taken == [st |-> "taken"]       \* its output has been handed to the caller

GetKadRecord(key) == [type |-> "GetKadRecord", key |-> key, quorum |-> "One"]
PutKadRecord(record) == [type |-> "PutKadRecord", record |-> record, quorum |-> "One"]

\* The two errors of get_kad_record / put_kad_record themselves.
SendError == Err("Command receiver should not be dropped.")
RecvError == Err("Sender not to be dropped.")

\* A oneshot reply channel: none made, made and unanswered, holding the
\* answer, or with its sender dropped.
NoChannel == [st |-> "none"]
Open == [st |-> "open"]
Filled(result) == [st |-> "filled", result |-> result]
Closed == [st |-> "closed"]

Min(a, b) == IF a < b THEN a ELSE b

\* Number of requests sent and not yet resolved.
InFlightCount(futures) == Cardinality({i \in DOMAIN futures : futures[i].st = "inflight"})

\* Mutant: a future that resolved to an error is taken up again.
FirstPendingOrFailed(futures, from, to) ==
    LET again(i) == \/ futures[i].st = "pending"
                    \/ (futures[i].st = "ready" /\ ~futures[i].result.ok)
    IN IF \E i \in from..to : again(i)
       THEN CHOOSE i \in from..to : again(i) /\ \A j \in from..(i - 1) : ~again(j)
       ELSE 0

\* The first future that has not been polled yet (0: none).
FirstPending(futures, from, to) ==
    IF \E i \in from..to : futures[i].st = "pending"
    THEN CHOOSE i \in from..to :
            futures[i].st = "pending" /\ \A j \in from..(i - 1) : futures[j].st # "pending"
    ELSE 0

Init ==
    /\ dht_parallelization_limit \in 0..MaxLimit
    /\ receiver_alive = TRUE
    /\ pc = "idle"
    /\ sent = <<>>
    /\ block_number = 0
    /\ positions = <<>>
    /\ gets = <<>>
    /\ chunk_start = 0
    /\ cells = <<>>
    /\ fetched = <<>>
    /\ unfetched = <<>>
    /\ block = 0
    /\ insert_cells = <<>>
    /\ puts = <<>>
    /\ failure_counter = 0
    /\ ratio = NaN
    /\ dht = [k \in {} |-> None]
    /\ nodes = <<>>
    /\ added = 0
    /\ oneshot = NoChannel
    /\ admin_result = None
    /\ streams = 0

(***************************************************************************)
(* fetch_cells_from_dht                                                    *)
(***************************************************************************)
\* Mutant: chunks of size 0 are let through.
chunks_never_panics(chunk_size) == FALSE

\* slice::chunks(chunk_size) panics on a chunk size of 0.
chunks_panics(chunk_size) == chunk_size = 0

\* Mutant: chunks one position longer than the limit.
chunk_end_one_more(start, len, chunk_size) == Min(start + chunk_size + 1, len)

\* Mutant: one chunk of all the positions left.
chunk_end_whole(start, len, chunk_size) == len

\* End of the chunk that starts after `start` positions.
chunk_end(start, len, chunk_size) == Min(start + chunk_size, len)

\* Lines 179-181: the call, up to the creation of the chunk iterator.
CallFetch(b, ps) ==
    /\ pc = "idle"
    /\ block_number' = b
    /\ positions' = ps
    /\ cells' = <<>>
    /\ gets' = [i \in 1..Len(ps) |-> Pending]
    /\ chunk_start' = 0
    /\ sent' = <<>>
    /\ pc' = IF chunks_panics(dht_parallelization_limit) THEN "fetch_panicked" ELSE "fetching"
    /\ UNCHANGED <<fetched, unfetched, dht>>
    /\ UNCHANGED insert_vars
    /\ UNCHANGED client_vars
    /\ UNCHANGED admin_vars

\* Lines 134-140 with 106-115: join_all polls the futures of the chunk in
\* order; each builds its key and sends GetKadRecord.  A send to a dropped
\* receiver fails at once and the future resolves to None.
GetIssue ==
    /\ pc = "fetching"
    /\ chunk_start < Len(positions)
    /\ LET to == chunk_end(chunk_start, Len(positions), dht_parallelization_limit)
           i == FirstPending(gets, chunk_start + 1, to)
       IN /\ i # 0
          /\ LET command == GetKadRecord(record_key(block_number, positions[i]))
             IN IF receiver_alive
                THEN /\ gets' = [gets EXCEPT ![i] = InFlight(command)]
                     /\ sent' = Append(sent, command)
                ELSE /\ gets' = [gets EXCEPT ![i] = Ready(SendError)]
                     /\ sent' = sent
    /\ UNCHANGED <<block_number, positions, chunk_start, cells, fetched, unfetched, pc, dht>>
    /\ UNCHANGED insert_vars
    /\ UNCHANGED client_vars
    /\ UNCHANGED admin_vars

\* Line 116: the reply arrives on the oneshot channel.
GetResolve(i, result) ==
    /\ pc = "fetching"
    /\ i \in DOMAIN gets
    /\ gets[i].st = "inflight"
    /\ gets' = [gets EXCEPT ![i] = Ready(result)]
    /\ UNCHANGED <<block_number, positions, chunk_start, cells, fetched, unfetched, pc, sent>>
    /\ UNCHANGED insert_vars
    /\ UNCHANGED client_vars
    /\ UNCHANGED admin_vars

\* Lines 183-184: join_all resolves when every future of the chunk has, and
\* hands over their outputs in the order of the futures; they extend `cells`.
ChunkDone ==
    /\ pc = "fetching"
    /\ chunk_start < Len(positions)
    /\ LET to == chunk_end(chunk_start, Len(positions), dht_parallelization_limit)
       IN /\ \A i \in (chunk_start + 1)..to : gets[i].st = "ready"
          /\ cells' = cells \o [k \in 1..(to - chunk_start) |->
                                   fetch_cell_from_dht(positions[chunk_start + k],
                                                       gets[chunk_start + k].result)]
          /\ gets' = [i \in DOMAIN gets |->
                         IF i \in (chunk_start + 1)..to THEN Taken ELSE gets[i]]
          /\ chunk_start' = to
    /\ UNCHANGED <<block_number, positions, fetched, unfetched, pc, sent, dht>>
    /\ UNCHANGED insert_vars
    /\ UNCHANGED client_vars
    /\ UNCHANGED admin_vars

\* Mutant: a position already listed as unfetched is not listed again.
RECURSIVE unfetched_dedup(_, _)
unfetched_dedup(cs, ps) ==
    IF cs = <<>> \/ ps = <<>> THEN <<>>
    ELSE LET rest == unfetched_dedup(Tail(cs), Tail(ps))
         IN IF ~Head(cs).some /\ \A k \in DOMAIN rest : rest[k] # Head(ps)
            THEN <<Head(ps)>> \o rest ELSE rest

\* Lines 187-192: zip cells with positions, keep the positions of the Nones.
RECURSIVE unfetched_of(_, _)
unfetched_of(cs, ps) ==
    IF cs = <<>> \/ ps = <<>> THEN <<>>
    ELSE (IF ~Head(cs).some THEN <<Head(ps)>> ELSE <<>>) \o unfetched_of(Tail(cs), Tail(ps))

\* Mutant: the cells are collected last first.
RECURSIVE fetched_reversed(_)
fetched_reversed(cs) ==
    IF cs = <<>> THEN <<>>
    ELSE fetched_reversed(Tail(cs)) \o (IF Head(cs).some THEN <<Head(cs).val>> ELSE <<>>)

\* Line 194: cells.into_iter().flatten().collect()
RECURSIVE fetched_of(_)
fetched_of(cs) ==
    IF cs = <<>> THEN <<>>
    ELSE (IF Head(cs).some THEN <<Head(cs).val>> ELSE <<>>) \o fetched_of(Tail(cs))

\* Lines 187-196: the chunk iterator is exhausted; split and return.
FetchReturn ==
    /\ pc = "fetching"
    /\ chunk_start >= Len(positions)
    /\ unfetched' = unfetched_of(cells, positions)
    /\ fetched' = fetched_of(cells)
    /\ pc' = "fetch_returned"
    /\ UNCHANGED <<block_number, positions, gets, chunk_start, cells, sent, dht>>
    /\ UNCHANGED insert_vars
    /\ UNCHANGED client_vars
    /\ UNCHANGED admin_vars

(***************************************************************************)
(* insert_into_dht                                                         *)
(***************************************************************************)
\* Mutant: no early return for an empty batch.
never_empty(cs) == FALSE

\* Line 210
is_empty(cs) == Len(cs) = 0

\* Mutant: the limit 0 is a limit like any other.
concurrency_limit_some(limit) == Some(limit)

\* for_each_concurrent(limit): the usize becomes Option<NonZeroUsize>, so
\* a limit of 0 is None.
concurrency_limit(limit) == IF limit = 0 THEN None ELSE Some(limit)

\* Mutant: the next future is started only when none is outstanding.
may_start_when_idle(limit, outstanding) == outstanding = 0

\* for_each_concurrent takes the next item of the stream while the limit,
\* if there is one, is greater than the number of futures it holds.
may_start(limit, outstanding) ==
    LET l == concurrency_limit(limit) IN IF l.some THEN l.val > outstanding ELSE TRUE

\* Mutant: only an error the engine answered with is counted.
count_engine_failure(counter, result) ==
    IF ~result.ok /\ result.err = "engine" THEN counter + 1 ELSE counter

\* Mutant: an increment that starts from the counter's first value, as an
\* unlocked read-modify-write can.
count_failure_lost(counter, result) == IF result.ok THEN counter ELSE 1

\* Lines 225-230: the counter after a put has resolved.
count_failure(counter, result) == IF result.ok THEN counter ELSE counter + 1

\* Lines 209-218: the call; an empty batch returns 1.0 at once.
CallInsert(b, cs) ==
    /\ pc = "idle"
    /\ block' = b
    /\ insert_cells' = cs
    /\ sent' = <<>>
    /\ puts' = [i \in 1..Len(cs) |-> Pending]
    /\ failure_counter' = 0
    /\ IF is_empty(cs)
       THEN pc' = "insert_returned" /\ ratio' = F32One
       ELSE pc' = "inserting" /\ ratio' = ratio
    /\ UNCHANGED dht
    /\ UNCHANGED fetch_vars
    /\ UNCHANGED client_vars
    /\ UNCHANGED admin_vars

\* Lines 220-227 with 119-128: the next cell of the stream becomes a future,
\* which builds the record and sends PutKadRecord.  A send to a dropped
\* receiver fails at once, and the future counts the failure and ends.
PutIssue ==
    /\ pc = "inserting"
    /\ may_start(dht_parallelization_limit, InFlightCount(puts))
    /\ LET i == FirstPending(puts, 1, Len(puts))
       IN /\ i # 0
          /\ LET command == PutKadRecord(dht_record(insert_cells[i], block))
             IN IF receiver_alive
                THEN /\ puts' = [puts EXCEPT ![i] = InFlight(command)]
                     /\ sent' = Append(sent, command)
                     /\ failure_counter' = failure_counter
                ELSE /\ puts' = [puts EXCEPT ![i] = Ready(SendError)]
                     /\ sent' = sent
                     /\ failure_counter' = count_failure(failure_counter, SendError)
    /\ UNCHANGED <<block, insert_cells, ratio, pc, dht>>
    /\ UNCHANGED fetch_vars
    /\ UNCHANGED client_vars
    /\ UNCHANGED admin_vars

\* Lines 129 and 225-232: the reply arrives; an error is counted.
PutResolve(i, result) ==
    /\ pc = "inserting"
    /\ i \in DOMAIN puts
    /\ puts[i].st = "inflight"
    /\ puts' = [puts EXCEPT ![i] = Ready(result)]
    /\ failure_counter' = count_failure(failure_counter, result)
    /\ UNCHANGED <<block, insert_cells, ratio, pc, sent>>
    /\ UNCHANGED fetch_vars
    /\ UNCHANGED client_vars
    /\ UNCHANGED admin_vars

\* Lines 235-238: the stream is exhausted and every future has ended.
InsertReturn ==
    /\ pc = "inserting"
    /\ \A i \in DOMAIN puts : puts[i].st = "ready"
    /\ ratio' = success_ratio(failure_counter, Len(insert_cells))
    /\ pc' = "insert_returned"
    /\ UNCHANGED <<block, insert_cells, puts, failure_counter, sent, dht>>
    /\ UNCHANGED fetch_vars
    /\ UNCHANGED client_vars
    /\ UNCHANGED admin_vars

(***************************************************************************)
(* The engine at the far end of the queue (the environment).               *)
(***************************************************************************)
\* What an engine may answer a get with: an error, or any list of records.
ShortValue == Bytes(COMMITMENT_SIZE + CHUNK_SIZE - 1, 1)
LongValue == Bytes(COMMITMENT_SIZE + CHUNK_SIZE + 1, 1)
GoodValue == Bytes(COMMITMENT_SIZE + CHUNK_SIZE, 1)
OtherValue == Bytes(COMMITMENT_SIZE + CHUNK_SIZE, 2)
ValueLists ==
    {<<>>, <<Bytes(0, 1)>>, <<ShortValue>>, <<LongValue>>, <<GoodValue>>,
     <<ShortValue, GoodValue>>, <<OtherValue, GoodValue>>}
RecordsOf(key, values) ==
    [k \in 1..Len(values) |-> PeerRecord([key |-> key, value |-> values[k], publisher |-> None])]
GetAnswers(key) == {Err("engine")} \cup {Ok(RecordsOf(key, vs)) : vs \in ValueLists}
PutAnswers == {Ok(<<>>), Err("engine")}

EngineAnswersGet(i) ==
    /\ pc = "fetching" /\ i \in DOMAIN gets /\ gets[i].st = "inflight"
    /\ \E result \in GetAnswers(gets[i].command.key) : GetResolve(i, result)
    /\ UNCHANGED dht

EngineAnswersPut(i) ==
    /\ \E result \in PutAnswers : PutResolve(i, result)
    /\ UNCHANGED dht

\* The engine drops the oneshot sender of a request without answering.
EngineDropsGetReply(i) == GetResolve(i, RecvError) /\ UNCHANGED dht
EngineDropsPutReply(i) == PutResolve(i, RecvError) /\ UNCHANGED dht

\* The engine drops the command receiver.
EngineShutdown ==
    /\ receiver_alive
    /\ receiver_alive' = FALSE
    /\ UNCHANGED <<dht_parallelization_limit, pc, sent, dht>>
    /\ UNCHANGED fetch_vars
    /\ UNCHANGED insert_vars
    /\ UNCHANGED admin_vars

\* The caller is done with the outcome of its call; the client is as new.
CallerDone ==
    /\ pc \in {"fetch_returned", "fetch_panicked", "insert_returned"}
    /\ pc' = "idle"
    /\ sent' = <<>>
    /\ block_number' = 0 /\ positions' = <<>> /\ gets' = <<>> /\ chunk_start' = 0
    /\ cells' = <<>> /\ fetched' = <<>> /\ unfetched' = <<>>
    /\ block' = 0 /\ insert_cells' = <<>> /\ puts' = <<>> /\ failure_counter' = 0
    /\ ratio' = NaN
    /\ UNCHANGED dht
    /\ UNCHANGED client_vars
    /\ UNCHANGED admin_vars

\* The caller goes on to its next call with the outcome of this one in hand.
CallerGoesOn ==
    /\ pc = "insert_returned"
    /\ pc' = "idle"
    /\ UNCHANGED <<sent, dht>>
    /\ UNCHANGED fetch_vars
    /\ UNCHANGED insert_vars
    /\ UNCHANGED client_vars
    /\ UNCHANGED admin_vars

(***************************************************************************)
(* start_listening, add_address, bootstrap, events_stream                  *)
(***************************************************************************)
StartListening(addr) == [type |-> "StartListening", addr |-> addr]
AddAddress(peer_id, peer_addr) == [type |-> "AddAddress", peer_id |-> peer_id, peer_addr |-> peer_addr]
Stream(sender) == [type |-> "Stream", sender |-> sender]
Bootstrap == [type |-> "Bootstrap"]

\* Mutant: a dropped reply sender is taken for success.
reply_result_lenient(channel) ==
    IF channel.st = "filled" THEN channel.result ELSE Ok(<<>>)

\* receiver.await.context("Sender not to be dropped.")? : the answer in the
\* channel, or the error of a channel whose sender is gone.
reply_result(channel) ==
    IF channel.st = "filled" THEN channel.result ELSE RecvError

\* Mutant: `?` never returns.
never_returns_early(result) == FALSE

\* The `?` of line 96: an error ends the function.
returns_early(result) == ~result.ok

\* Lines 54-59: the channel is made and StartListening sent; a send to a
\* dropped receiver ends the call with the error.
CallStartListening(addr) ==
    /\ pc = "idle"
    /\ IF receiver_alive
       THEN /\ sent' = <<StartListening(addr)>>
            /\ oneshot' = Open
            /\ pc' = "start_listening"
            /\ admin_result' = admin_result
       ELSE /\ sent' = <<>>
            /\ oneshot' = Closed
            /\ pc' = "admin_returned"
            /\ admin_result' = SendError
    /\ UNCHANGED <<nodes, added, streams, dht>>
    /\ UNCHANGED <<fetch_vars, insert_vars, client_vars>>

\* Lines 63-76
CallAddAddress(node) ==
    /\ pc = "idle"
    /\ IF receiver_alive
       THEN /\ sent' = <<AddAddress(node[1], node[2])>>
            /\ oneshot' = Open
            /\ pc' = "add_address"
            /\ admin_result' = admin_result
       ELSE /\ sent' = <<>>
            /\ oneshot' = Closed
            /\ pc' = "admin_returned"
            /\ admin_result' = SendError
    /\ UNCHANGED <<nodes, added, streams, dht>>
    /\ UNCHANGED <<fetch_vars, insert_vars, client_vars>>

\* Lines 93-94: bootstrap is entered.
CallBootstrap(ns) ==
    /\ pc = "idle"
    /\ nodes' = ns
    /\ added' = 0
    /\ sent' = <<>>
    /\ oneshot' = NoChannel
    /\ pc' = "bootstrap"
    /\ UNCHANGED <<admin_result, streams, dht>>
    /\ UNCHANGED <<fetch_vars, insert_vars, client_vars>>

\* Lines 95-102: the next node of the list is handed to add_address (lines
\* 68-76), or, the list done, Bootstrap is sent.  A send to a dropped
\* receiver ends bootstrap with the error.
BootstrapNext ==
    /\ pc = "bootstrap"
    /\ LET command == IF added < Len(nodes)
                      THEN AddAddress(nodes[added + 1][1], nodes[added + 1][2])
                      ELSE Bootstrap
       IN IF receiver_alive
          THEN /\ sent' = Append(sent, command)
               /\ oneshot' = Open
               /\ pc' = IF added < Len(nodes) THEN "bootstrap_add_address" ELSE "bootstrap_reply"
               /\ admin_result' = admin_result
          ELSE /\ sent' = sent
               /\ oneshot' = Closed
               /\ pc' = "admin_returned"
               /\ admin_result' = SendError
    /\ UNCHANGED <<nodes, added, streams, dht>>
    /\ UNCHANGED <<fetch_vars, insert_vars, client_vars>>

\* Lines 60, 77, 103: the reply channel has resolved; its result is returned.
AdminResume ==
    /\ pc \in {"start_listening", "add_address", "bootstrap_reply"}
    /\ oneshot.st \in {"filled", "closed"}
    /\ admin_result' = reply_result(oneshot)
    /\ pc' = "admin_returned"
    /\ UNCHANGED <<sent, nodes, added, oneshot, streams, dht>>
    /\ UNCHANGED <<fetch_vars, insert_vars, client_vars>>

\* Lines 77 and 96: add_address has resolved inside bootstrap; an error ends
\* bootstrap, otherwise the loop goes on.
BootstrapAddResume ==
    /\ pc = "bootstrap_add_address"
    /\ oneshot.st \in {"filled", "closed"}
    /\ LET result == reply_result(oneshot)
       IN IF returns_early(result)
          THEN /\ admin_result' = result
               /\ pc' = "admin_returned"
               /\ added' = added
          ELSE /\ admin_result' = admin_result
               /\ pc' = "bootstrap"
               /\ added' = added + 1
    /\ UNCHANGED <<sent, nodes, oneshot, streams, dht>>
    /\ UNCHANGED <<fetch_vars, insert_vars, client_vars>>

\* Mutant: expect() lets an error through.
expect_never_panics(result) == FALSE

\* Line 90: .expect("Command receiver should not be dropped.") panics on Err.
expect_panics(result) == ~result.ok

\* Lines 83-91: a new event channel; its sender is sent in Stream and its
\* receiver returned, no reply being waited for.  The result of the send
\* goes through expect().
CallEventsStream ==
    /\ pc = "idle"
    /\ streams < MaxStreams
    /\ streams' = streams + 1
    /\ LET result == IF receiver_alive THEN Ok(<<>>) ELSE SendError
       IN /\ sent' = IF result.ok THEN <<Stream(streams + 1)>> ELSE <<>>
          /\ IF expect_panics(result)
             THEN /\ admin_result' = admin_result
                  /\ pc' = "events_panicked"
             ELSE /\ admin_result' = Ok(streams + 1)
                  /\ pc' = "events_returned"
    /\ UNCHANGED <<nodes, added, oneshot, dht>>
    /\ UNCHANGED <<fetch_vars, insert_vars, client_vars>>

\* The engine answers the command it was sent.
AdminAnswers == {Ok(<<>>), Err("engine")}
EngineAnswersAdmin ==
    /\ oneshot.st = "open"
    /\ \E result \in AdminAnswers : oneshot' = Filled(result)
    /\ UNCHANGED <<pc, sent, nodes, added, admin_result, streams, dht>>
    /\ UNCHANGED <<fetch_vars, insert_vars, client_vars>>

\* The engine drops the oneshot sender without answering.
EngineDropsAdminReply ==
    /\ oneshot.st = "open"
    /\ oneshot' = Closed
    /\ UNCHANGED <<pc, sent, nodes, added, admin_result, streams, dht>>
    /\ UNCHANGED <<fetch_vars, insert_vars, client_vars>>

\* The caller is done with the outcome of its administrative call.
AdminCallerDone ==
    /\ pc \in {"admin_returned", "events_returned", "events_panicked"}
    /\ pc' = "idle"
    /\ sent' = <<>>
    /\ nodes' = <<>> /\ added' = 0 /\ oneshot' = NoChannel /\ admin_result' = None
    /\ UNCHANGED <<streams, dht>>
    /\ UNCHANGED <<fetch_vars, insert_vars, client_vars>>

(***************************************************************************)
(* Inputs of the calls.                                                    *)
(***************************************************************************)
Cell(position, content) == [position |-> position, content |-> content]
PositionLists == SeqsUpTo(Positions, MaxPositions)

\* Fetches: every list of positions for block 7, the empty list for every block.
FetchCalls == {c \in Blocks \X PositionLists : c[2] = <<>> \/ c[1] = 7}

\* Inserts: the first n cells of a block's matrix, row by row, for every n.
MatrixCell(k) == Cell(Pos((k - 1) \div 2, (k - 1) % 2), Bytes(COMMITMENT_SIZE + CHUNK_SIZE, k))
InsertCalls == {<<b, [k \in 1..n |-> MatrixCell(k)]>> : b \in Blocks, n \in 0..MaxCells}

Next ==
    \/ \E c \in FetchCalls : CallFetch(c[1], c[2])
    \/ GetIssue
    \/ \E i \in 1..MaxPositions : EngineAnswersGet(i)
    \/ \E i \in 1..MaxPositions : EngineDropsGetReply(i)
    \/ ChunkDone
    \/ FetchReturn
    \/ \E c \in InsertCalls : CallInsert(c[1], c[2])
    \/ PutIssue
    \/ \E i \in 1..MaxCells : EngineAnswersPut(i)
    \/ \E i \in 1..MaxCells : EngineDropsPutReply(i)
    \/ InsertReturn
    \/ EngineShutdown
    \/ CallerDone

Spec == Init /\ [][Next]_vars

\* Administrative calls: two peers, one listen address.
Peers == {<<"peer1", "addr1">>, <<"peer2", "addr2">>}
NodeLists == SeqsUpTo(Peers, MaxNodes)
ListenAddrs == {"addr0"}

NextAdmin ==
    \/ \E addr \in ListenAddrs : CallStartListening(addr)
    \/ \E node \in Peers : CallAddAddress(node)
    \/ \E ns \in NodeLists : CallBootstrap(ns)
    \/ BootstrapNext
    \/ AdminResume
    \/ BootstrapAddResume
    \/ CallEventsStream
    \/ EngineAnswersAdmin
    \/ EngineDropsAdminReply
    \/ EngineShutdown
    \/ AdminCallerDone

SpecAdmin == Init /\ [][NextAdmin]_vars

(***************************************************************************)
(* A DHT that stores every record put and returns it for its key.          *)
(***************************************************************************)
store(records, record) ==
    [k \in DOMAIN records \cup {record.key} |->
        IF k = record.key THEN record ELSE records[k]]

lookup(records, key) ==
    IF key \in DOMAIN records THEN Ok(<<PeerRecord(records[key])>>) ELSE Err("NotFound")

EngineStoresPut(i) ==
    /\ pc = "inserting" /\ i \in DOMAIN puts /\ puts[i].st = "inflight"
    /\ dht' = store(dht, puts[i].command.record)
    /\ PutResolve(i, Ok(<<>>))

EngineLooksUpGet(i) ==
    /\ pc = "fetching" /\ i \in DOMAIN gets /\ gets[i].st = "inflight"
    /\ GetResolve(i, lookup(dht, gets[i].command.key))
    /\ UNCHANGED dht

\* The positions of a batch of cells, in order.
positions_of(cs) == [k \in 1..Len(cs) |-> cs[k].position]

\* Round trips: into an empty DHT any batch of up to MaxRoundTrip cells is
\* inserted, then the positions of the batch are fetched, for the same or
\* another block.
\* Three cells of a matrix, and a fourth at the position of the first with
\* another content.
Cells ==
    {Cell(Pos(0, 0), GoodValue), Cell(Pos(0, 1), OtherValue), Cell(Pos(1, 0), GoodValue),
     Cell(Pos(0, 0), OtherValue)}
RoundTripCalls == Blocks \X SeqsUpTo(Cells, MaxRoundTrip)

NextRoundTrip ==
    \/ \E c \in RoundTripCalls : DOMAIN dht = {} /\ CallInsert(c[1], c[2])
    \/ PutIssue
    \/ \E i \in 1..MaxRoundTrip : EngineStoresPut(i)
    \/ InsertReturn
    \/ CallerGoesOn
    \/ \E b \in Blocks : CallFetch(b, positions_of(insert_cells))
    \/ GetIssue
    \/ \E i \in 1..MaxRoundTrip : EngineLooksUpGet(i)
    \/ ChunkDone
    \/ FetchReturn

SpecRoundTrip == Init /\ [][NextRoundTrip]_vars

(***************************************************************************)
(* Properties.                                                             *)
(***************************************************************************)
Count(s, x) == Cardinality({i \in DOMAIN s : s[i] = x})
SomeIndices == {i \in DOMAIN cells : cells[i].some}
NoneIndices == {i \in DOMAIN cells : ~cells[i].some}
Rank(S, i) == Cardinality({j \in S : j <= i})
\* The elements of s at the indices S, in ascending order of index.
At(s, S) == [k \in 1..Cardinality(S) |-> s[CHOOSE i \in S : Rank(S, i) = k]]
FailedPuts == {i \in DOMAIN puts : puts[i].st = "ready" /\ ~puts[i].result.ok}
\* Some request of the call in hand has resolved with an error.
SomeGetFailed == \E i \in DOMAIN gets : gets[i].st = "ready" /\ ~gets[i].result.ok

\* C1: when fetch_cells_from_dht returns, the lengths of fetched and unfetched
\* add up to the length of positions, and every position occurs in the two
\* outputs together exactly as often as in the input.
C1_EveryPositionOnce ==
    pc = "fetch_returned" =>
        /\ Len(fetched) + Len(unfetched) = Len(positions)
        /\ \A p \in Positions :
              Count(positions_of(fetched), p) + Count(unfetched, p) = Count(positions, p)

\* C1 witness: a position asked for twice, fetched once and unfetched once.
C1_Witness ==
    /\ pc = "fetch_returned"
    /\ Len(positions) = 3 /\ positions[1] = positions[3]
    /\ Len(fetched) = 1 /\ fetched[1].position = positions[1]
    /\ Len(unfetched) = 2 /\ unfetched[2] = positions[1]

\* C2: when fetch_cells_from_dht returns, the fetched cells are those of the
\* positions that got a cell, in input order, each at its own position, and
\* unfetched is the rest of the input, in input order.
C2_InputOrder ==
    pc = "fetch_returned" =>
        /\ Len(cells) = Len(positions)
        /\ \A i \in SomeIndices : cells[i].val.position = positions[i]
        /\ positions_of(fetched) = At(positions, SomeIndices)
        /\ unfetched = At(positions, NoneIndices)

\* C2 witness: the scenario of the specification.
C2_Witness ==
    /\ pc = "fetch_returned"
    /\ dht_parallelization_limit = 2
    /\ positions = <<Pos(0, 0), Pos(0, 1), Pos(1, 0)>>
    /\ positions_of(fetched) = <<Pos(0, 0), Pos(1, 0)>>
    /\ unfetched = <<Pos(0, 1)>>

\* C3: during fetch_cells_from_dht no more gets are sent and unresolved than
\* the parallelism limit.
C3_FetchInFlightBound ==
    pc = "fetching" => InFlightCount(gets) <= dht_parallelization_limit

\* C3 witness: more positions than the limit, and the limit reached.
C3_Witness ==
    /\ pc = "fetching"
    /\ dht_parallelization_limit = 2
    /\ Len(positions) > dht_parallelization_limit
    /\ InFlightCount(gets) = dht_parallelization_limit

\* |x - (n - k) / n| <= 2^-23, for a finite x.
NearRatio(x, k, n) ==
    LET a == x.num * n
        b == (n - k) * Pow2(x.exp)
        diff == IF a >= b THEN a - b ELSE b - a
    IN IF x.exp >= 23 THEN diff <= n * Pow2(x.exp - 23) ELSE diff * Pow2(23 - x.exp) <= n

\* C4: for a non-empty batch of n cells of which k puts resolved with an
\* error, insert_into_dht returns 1 - k/n to within f32 rounding (2^-23): a
\* number in [0, 1], exactly 1.0 for k = 0, exactly 0.0 for k = n and exactly
\* 0.75 for n = 4, k = 1.
C4_SuccessRatio ==
    (pc = "insert_returned" /\ Len(insert_cells) > 0) =>
        LET n == Len(insert_cells)
            k == Cardinality(FailedPuts)
        IN /\ ~ratio.nan
           /\ 0 <= ratio.num /\ ratio.num <= Pow2(ratio.exp)
           /\ NearRatio(ratio, k, n)
           /\ (k = 0 => ratio = F32One)
           /\ (k = n => ratio = F32(0, 0))
           /\ (n = 4 /\ k = 1 => ratio = F32(3, 2))

\* C4 witness: four cells, one failed put, 0.75.
C4_Witness ==
    /\ pc = "insert_returned"
    /\ Len(insert_cells) = 4
    /\ Cardinality(FailedPuts) = 1
    /\ ratio = F32(3, 2)

\* C5 as stated: during insert_into_dht at most dht_parallelization_limit
\* puts are sent and unresolved, whatever the limit.
C5_InsertInFlightBound ==
    pc = "inserting" => InFlightCount(puts) <= dht_parallelization_limit

\* C6: failed requests never make a batch call fail.  Once a get has failed
\* the call has not panicked; every failed get leaves None in `cells`; a call
\* that returns has dealt with every item, lists every position without a
\* cell as unfetched and returns a number as ratio; and when no command
\* could be sent at all, every position is unfetched and the ratio is 0.0.
C6_FailedGetIsNone ==
    \A i \in (Len(cells) + 1)..Len(cells') : ~gets[i].result.ok => cells'[i] = None
C6_PartialResult ==
    /\ SomeGetFailed => pc # "fetch_panicked"
    /\ pc = "fetch_returned" =>
          /\ Len(cells) = Len(positions)
          /\ \A i \in NoneIndices : \E k \in DOMAIN unfetched : unfetched[k] = positions[i]
          /\ (sent = <<>> => unfetched = positions /\ fetched = <<>>)
    /\ pc = "insert_returned" =>
          /\ \A i \in DOMAIN puts : puts[i].st = "ready"
          /\ ~ratio.nan
          /\ (sent = <<>> /\ Len(insert_cells) > 0 => ratio = F32(0, 0))
\* C6, the two parts together: in every state and at every step.
C6_NeverFailsAsAWhole == [](C6_PartialResult) /\ [][C6_FailedGetIsNone]_vars

\* C6 witness: the receiver was dropped after the first get of three was
\* sent; the call went on through both chunks and returned every position
\* as unfetched.
C6_Witness ==
    /\ pc = "fetch_returned"
    /\ dht_parallelization_limit = 2
    /\ Len(positions) = 3
    /\ Len(sent) = 1
    /\ ~receiver_alive
    /\ fetched = <<>>
    /\ unfetched = positions

\* C7 as stated: a fetch of no positions ends by returning ([], []), having
\* sent no get, whatever the parallelism limit.
C7_EmptyFetch ==
    (pc \in {"fetch_returned", "fetch_panicked"} /\ positions = <<>>) =>
        /\ pc = "fetch_returned"
        /\ fetched = <<>> /\ unfetched = <<>>
        /\ sent = <<>>

\* C8: an insert of no cells has returned 1.0 as soon as it is called: it is
\* never waiting, and it has sent no command.
C8_EmptyInsert ==
    (pc \in {"inserting", "insert_returned"} /\ insert_cells = <<>>) =>
        /\ pc = "insert_returned"
        /\ ratio = F32One
        /\ sent = <<>>

\* C8 witness: limit 0 and a dropped receiver, block 17.
C8_Witness ==
    /\ pc = "insert_returned"
    /\ insert_cells = <<>>
    /\ block = 17
    /\ dht_parallelization_limit = 0
    /\ ~receiver_alive
    /\ ratio = F32One

\* The first record of a successful, non-empty answer has exactly
\* COMMITMENT_SIZE + CHUNK_SIZE bytes.
Decodable(result) ==
    /\ result.ok
    /\ Len(result.val) > 0
    /\ Len(result.val[1].record.value) = COMMITMENT_SIZE + CHUNK_SIZE

\* C9: a position gets a cell exactly when its get was answered Ok with a
\* list whose first record has COMMITMENT_SIZE + CHUNK_SIZE bytes, and the
\* cell is that position with those bytes; and on return fetched is the cells
\* so got and unfetched the positions without one.
C9_DecodeFirstRecord ==
    \A i \in (Len(cells) + 1)..Len(cells') :
        cells'[i] = IF Decodable(gets[i].result)
                    THEN Some(Cell(positions[i], gets[i].result.val[1].record.value))
                    ELSE None
C9_Split ==
    pc = "fetch_returned" =>
        /\ Len(cells) = Len(positions)
        /\ fetched = [k \in 1..Cardinality(SomeIndices) |-> At(cells, SomeIndices)[k].val]
        /\ unfetched = At(positions, NoneIndices)
        /\ (NoneIndices = {} => unfetched = <<>>)
\* C9, the two parts together: in every state and at every step.
C9_FetchedIffFirstRecordValid == [](C9_Split) /\ [][C9_DecodeFirstRecord]_vars

\* C9 witness: a cell with the bytes only the first of two valid records
\* has, next to a position that is unfetched.
C9_Witness ==
    /\ pc = "fetch_returned"
    /\ Len(fetched) = 1 /\ fetched[1].content = OtherValue
    /\ Len(unfetched) = 2

\* No two cells of the batch at one position with different contents.
Consistent(cs) ==
    \A i, j \in DOMAIN cs : cs[i].position = cs[j].position => cs[i].content = cs[j].content

AdminWaiting == {"start_listening", "add_address", "bootstrap_add_address", "bootstrap_reply"}
SendsAdminCommand ==
    \/ \E addr \in ListenAddrs : CallStartListening(addr)
    \/ \E node \in Peers : CallAddAddress(node)
    \/ BootstrapNext

\* A send to a dropped command receiver, a dropped reply sender or an error
\* reply ends the call at once with an error.
C11_FailureEndsCall ==
    /\ (~receiver_alive /\ SendsAdminCommand) =>
          (pc' = "admin_returned" /\ admin_result' = SendError /\ sent' = sent)
    /\ (pc \in AdminWaiting /\ pc' # pc /\ oneshot.st = "closed") =>
          (pc' = "admin_returned" /\ admin_result' = RecvError)
    /\ (pc \in AdminWaiting /\ pc' # pc /\ oneshot.st = "filled" /\ ~oneshot.result.ok) =>
          (pc' = "admin_returned" /\ admin_result' = oneshot.result)

\* A call whose reply channel has resolved can go on (it does not hang), and
\* a call that has returned Ok was answered Ok by the engine.
C11_ErrorOrAnswer ==
    /\ (pc \in AdminWaiting /\ oneshot.st \in {"filled", "closed"}) =>
          ENABLED (AdminResume \/ BootstrapAddResume)
    /\ pc = "admin_returned" =>
          /\ admin_result \in {SendError, RecvError} \cup AdminAnswers
          /\ admin_result.ok => (oneshot.st = "filled" /\ oneshot.result.ok /\ sent # <<>>)

\* C11: start_listening, add_address and bootstrap return an error when the
\* command cannot be sent (receiver gone), when the engine drops the reply
\* channel, or when the engine replies with an error; they neither return Ok
\* nor stay waiting.
C11_AdminFailurePropagates == [](C11_ErrorOrAnswer) /\ [][C11_FailureEndsCall]_vars

\* C11 witness: bootstrap returned the error of a reply channel the engine
\* dropped, after one node had been added.
C11_Witness ==
    /\ pc = "admin_returned"
    /\ Len(nodes) = 2
    /\ added = 1
    /\ oneshot.st = "closed"
    /\ Len(sent) = 2
    /\ admin_result = RecvError

(***************************************************************************)
(* Termination of the batch calls                                          *)
(***************************************************************************)
\* The futures of a call are polled whenever they can go on, and every get
\* or put the engine was sent is resolved: answered, or its reply sender
\* dropped.
\* The step of InsertReturn, told by the place it leads to: within Next no
\* other step takes a call under way to its return.
InsertReturns ==
    /\ pc = "inserting"
    /\ \A i \in DOMAIN puts : puts[i].st = "ready"
    /\ pc' = "insert_returned"

Fairness ==
    /\ WF_vars(GetIssue) /\ WF_vars(ChunkDone) /\ WF_vars(FetchReturn)
    /\ WF_vars(PutIssue) /\ WF_pc(InsertReturns)
    /\ \A i \in 1..MaxPositions : WF_vars(EngineAnswersGet(i) \/ EngineDropsGetReply(i))
    /\ \A i \in 1..MaxCells : WF_vars(EngineAnswersPut(i) \/ EngineDropsPutReply(i))

SpecFair == Spec /\ Fairness

InCall == {"fetching", "inserting"}
Returned == {"fetch_returned", "insert_returned"}

\* A call under way ends in no other way than by returning.
LeftByReturning == pc \in InCall => pc' \in (InCall \cup Returned)
\* A call that has begun is under way or has returned.
BegunIsUnderWay == (pc = "idle" /\ pc' # "idle") => pc' \in (InCall \cup Returned)

\* A batch call under way does not wait forever: it ends by returning.
C12_NoWaitingForever ==
    /\ [][LeftByReturning]_vars
    /\ (pc \in InCall) ~> (pc \in Returned)

\* C12 as stated: with every issued get and put resolved in the end, every
\* call of fetch_cells_from_dht and insert_into_dht returns: a call that has
\* begun is under way or has returned, and a call under way returns.
C12_BatchCallsReturn ==
    /\ [][BegunIsUnderWay]_vars
    /\ C12_NoWaitingForever

(***************************************************************************)
(* Order of the requests                                                   *)
(***************************************************************************)
\* The chunk of the i-th position, chunks of length P counted from 0.
ChunkOf(i) == (i - 1) \div dht_parallelization_limit
Unresolved(futures) == {i \in DOMAIN futures : futures[i].st = "inflight"}
Issued(futures) == {i \in DOMAIN futures : futures[i].st # "pending"}

\* No get of a later chunk is issued while a get of an earlier chunk is
\* pending or unresolved; a call with an unresolved get can neither finish
\* its chunk nor return, and a returned call has no get left.
C13_Barrier ==
    /\ pc = "fetching" =>
          /\ \A i, j \in DOMAIN gets :
                (ChunkOf(i) < ChunkOf(j) /\ gets[i].st \in {"pending", "inflight"}) =>
                    gets[j].st = "pending"
          /\ Unresolved(gets) # {} => (~ENABLED ChunkDone /\ ~ENABLED FetchReturn)
    /\ pc = "fetch_returned" => \A i \in DOMAIN gets : gets[i].st = "taken"

\* A finished chunk is the next P positions, or the rest when fewer are left.
C13_ConsecutiveChunks ==
    (pc = "fetching" /\ chunk_start' # chunk_start) =>
        /\ chunk_start' = Min(chunk_start + dht_parallelization_limit, Len(positions))
        /\ \A i \in DOMAIN gets : gets'[i].st = "taken" <=> i <= chunk_start'

\* C13: fetch_cells_from_dht works through consecutive chunks of length P
\* (the last one possibly shorter); no get of chunk N+1 is issued while a get
\* of chunk N is unresolved, and the call does not return while an issued get
\* is unresolved: an unanswered get stalls its chunk and the call.
C13_StrictChunkBarrier == [](C13_Barrier) /\ [][C13_ConsecutiveChunks]_vars

\* C13 witness: limit 2, three positions; one get of the first chunk is
\* answered, the other is not, and the get of the second chunk waits.
C13_Witness ==
    /\ pc = "fetching"
    /\ dht_parallelization_limit = 2
    /\ Len(positions) = 3
    /\ gets[1].st = "ready"
    /\ gets[2].st = "inflight"
    /\ gets[3].st = "pending"
    /\ ~ENABLED GetIssue

\* C14: insert_into_dht bounds its puts as a stream, not by chunks: the cells
\* become puts in input order, and a cell that is left can become one as soon
\* as fewer than P puts are outstanding (so whenever a put resolves), whatever
\* the state of the puts issued before.
C14_InsertIsStreaming ==
    pc \in {"inserting", "insert_returned"} =>
        /\ \A i, j \in DOMAIN puts : (i < j /\ puts[j].st # "pending") => puts[i].st # "pending"
        /\ \A k \in DOMAIN sent : sent[k] = PutKadRecord(dht_record(insert_cells[k], block))
        /\ (pc = "inserting" /\ Issued(puts) # DOMAIN puts
              /\ InFlightCount(puts) < dht_parallelization_limit) => ENABLED PutIssue

\* C14 witness: limit P = 2; put 3 = P + 1 is in flight together with one
\* (P - 1) unresolved put of the first two, the other one resolved.
C14_Witness ==
    /\ pc = "inserting"
    /\ dht_parallelization_limit = 2
    /\ Len(insert_cells) >= 3
    /\ puts[3].st = "inflight"
    /\ puts[1].st = "inflight"
    /\ puts[2].st = "ready"

(***************************************************************************)
(* One request per item                                                    *)
(***************************************************************************)
StRank(slot) == CASE slot.st = "pending" -> 0 [] slot.st = "inflight" -> 1
                  [] slot.st = "ready" -> 2 [] slot.st = "taken" -> 3
\* Within a call a future only goes forward, and a step sends at most one
\* command, for a future that was pending.
GoesForward(futures, futures_after) ==
    /\ \A i \in DOMAIN futures : StRank(futures_after[i]) >= StRank(futures[i])
    /\ Len(sent') <= Len(sent) + 1
    /\ Len(sent') = Len(sent) + 1 =>
          \E i \in DOMAIN futures : futures[i].st = "pending" /\ futures_after[i].st = "inflight"
C15_NoRetry ==
    /\ (pc = "fetching" /\ pc' \in {"fetching", "fetch_returned"}) => GoesForward(gets, gets')
    /\ (pc = "inserting" /\ pc' \in {"inserting", "insert_returned"}) => GoesForward(puts, puts')

\* A call that returns has dealt with every item, and the commands it sent
\* are those of the first items, one each: all of them unless the receiver
\* was dropped.
C15_OneEach ==
    /\ pc = "fetch_returned" =>
          /\ \A i \in DOMAIN gets : gets[i].st = "taken"
          /\ Len(cells) = Len(positions)
          /\ Len(sent) <= Len(positions)
          /\ receiver_alive => Len(sent) = Len(positions)
          /\ \A k \in DOMAIN sent : sent[k] = GetKadRecord(record_key(block_number, positions[k]))
    /\ pc = "insert_returned" =>
          /\ \A i \in DOMAIN puts : puts[i].st = "ready"
          /\ Len(sent) <= Len(insert_cells)
          /\ receiver_alive => Len(sent) = Len(insert_cells)
          /\ \A k \in DOMAIN sent : sent[k] = PutKadRecord(dht_record(insert_cells[k], block))

\* C15: no retry, no deduplication, no early termination: a batch call that
\* has returned made exactly one request per input item (duplicate positions
\* each their own, whatever failed), and a failed request is not made again.
C15_OneRequestPerItem == [](C15_OneEach) /\ [][C15_NoRetry]_vars

\* C15 witness: a fetch of the same position twice has returned; it sent two
\* equal gets, and the position is unfetched twice.
C15_Witness ==
    /\ pc = "fetch_returned"
    /\ Len(positions) = 2
    /\ positions[1] = positions[2]
    /\ Len(sent) = 2
    /\ sent[1] = sent[2]
    /\ unfetched = positions

(***************************************************************************)
(* The failure counter                                                     *)
(***************************************************************************)
\* The puts that fail in this step.
NewlyFailed == {i \in DOMAIN puts : puts[i].st # "ready" /\ puts'[i].st = "ready"
                                    /\ ~puts'[i].result.ok}
\* During a call the counter goes up by one with each put that fails and by
\* nothing else, and the result is computed only when every put has resolved.
C16_CountsEachFailure ==
    /\ (pc = "idle" /\ pc' = "inserting") => failure_counter' = 0
    /\ (pc = "inserting" /\ pc' \in {"inserting", "insert_returned"}) =>
          /\ failure_counter' = failure_counter + Cardinality(NewlyFailed)
          /\ Cardinality(NewlyFailed) <= 1
    /\ (pc = "inserting" /\ pc' = "insert_returned") =>
          /\ \A i \in DOMAIN puts : puts[i].st = "ready"
          /\ ratio' = success_ratio(failure_counter, Len(insert_cells))
\* The counter is the number of puts that have failed so far.
C16_CounterIsFailures ==
    pc \in {"inserting", "insert_returned"} => failure_counter = Cardinality(FailedPuts)

\* C16: the failure counter starts at 0, is only incremented, once for each
\* failed put and never for a successful one, without losing an update in any
\* interleaving of the puts; it is read for the result after every put has
\* resolved, when it is the number of failed puts.
C16_FailureCounter == [](C16_CounterIsFailures) /\ [][C16_CountsEachFailure]_vars

\* C16 witness: limit 2, four cells; the first put succeeded, the other
\* three failed, and the call returned 0.25 from a counter of 3.
C16_Witness ==
    /\ pc = "insert_returned"
    /\ dht_parallelization_limit = 2
    /\ Len(insert_cells) = 4
    /\ puts[1].result.ok
    /\ failure_counter = 3
    /\ ratio = F32(1, 2)

(***************************************************************************)
(* bootstrap                                                               *)
(***************************************************************************)
BootstrapPcs == {"bootstrap", "bootstrap_add_address", "bootstrap_reply"}
\* What a bootstrap with no failure sends.
BootstrapCommands(ns) == [k \in 1..Len(ns) |-> AddAddress(ns[k][1], ns[k][2])] \o <<Bootstrap>>
ReplyIsOk(channel) == channel.st = "filled" /\ channel.result.ok

\* What bootstrap has sent is the beginning of AddAddress for each node in
\* list order and then Bootstrap, with at most one command unanswered.
C17_InListOrder ==
    pc \in BootstrapPcs =>
        /\ added <= Len(nodes)
        /\ Len(sent) <= Len(nodes) + 1
        /\ \A k \in DOMAIN sent : sent[k] = BootstrapCommands(nodes)[k]
        /\ pc = "bootstrap" => Len(sent) = added
        /\ pc = "bootstrap_add_address" => Len(sent) = added + 1
        /\ pc = "bootstrap_reply" => (added = Len(nodes) /\ Len(sent) = Len(nodes) + 1)

\* A command is sent only when the one before it has been answered Ok; a
\* failed AddAddress ends bootstrap with its error and nothing more is sent;
\* bootstrap returns Ok only with every command sent.
C17_OneAtATime ==
    /\ (pc \in BootstrapPcs /\ Len(sent') > Len(sent)) =>
          /\ pc = "bootstrap"
          /\ Len(sent') = Len(sent) + 1
          /\ sent # <<>> => ReplyIsOk(oneshot)
    /\ (pc = "bootstrap_add_address" /\ pc' # pc /\ ~ReplyIsOk(oneshot)) =>
          /\ pc' = "admin_returned"
          /\ admin_result' = reply_result(oneshot)
          /\ ~admin_result'.ok
          /\ sent' = sent
    /\ (pc = "bootstrap_reply" /\ pc' # pc) =>
          /\ pc' = "admin_returned"
          /\ sent = BootstrapCommands(nodes)
    /\ pc = "admin_returned" => Len(sent') <= Len(sent)

\* C17: bootstrap sends one AddAddress per node in list order, each after the
\* reply to the one before, and Bootstrap after every AddAddress was answered
\* Ok; the first failed AddAddress ends it with that error, nothing more being
\* sent; an empty list sends Bootstrap alone.
C17_BootstrapSequential == [](C17_InListOrder) /\ [][C17_OneAtATime]_vars

\* C17 witness: two nodes; the first AddAddress was answered with an error
\* and bootstrap returned it, having sent that one command.
C17_Witness ==
    /\ pc = "admin_returned"
    /\ Len(nodes) = 2
    /\ added = 0
    /\ sent = <<AddAddress(nodes[1][1], nodes[1][2])>>
    /\ oneshot = Filled(Err("engine"))
    /\ admin_result = Err("engine")

(***************************************************************************)
(* The limit 0                                                             *)
(***************************************************************************)
FetchPcs == {"fetching", "fetch_panicked", "fetch_returned"}
\* With the limit 0 a fetch is never under way and never returns; a fetch
\* that panicked had the limit 0 and has issued no get; a fetch that has
\* returned had a limit of at least 1.
C18_PanicsOrReturns ==
    /\ dht_parallelization_limit = 0 => pc \notin {"fetching", "fetch_returned"}
    /\ pc = "fetch_panicked" =>
          /\ dht_parallelization_limit = 0
          /\ sent = <<>>
          /\ \A i \in DOMAIN gets : gets[i].st = "pending"
          /\ cells = <<>> /\ fetched = <<>> /\ unfetched = <<>>
    /\ pc = "fetch_returned" => dht_parallelization_limit >= 1
\* Every call of fetch with the limit 0 panics, and a panicked call does
\* nothing more.
C18_PanicsAtOnce ==
    /\ (pc = "idle" /\ pc' \in FetchPcs /\ dht_parallelization_limit = 0) => pc' = "fetch_panicked"
    /\ pc = "fetch_panicked" => (pc' \in {"fetch_panicked", "idle"} /\ Len(sent') = 0)

\* C18: with a parallelism limit of 0 fetch_cells_from_dht produces no
\* result: it panics on the zero chunk size before any get is issued, for
\* every positions list, the empty one too; a (fetched, unfetched) result
\* comes only with a limit of at least 1.
C18_ZeroLimitFetchPanics == [](C18_PanicsOrReturns) /\ [][C18_PanicsAtOnce]_vars

\* C18 witness: with the limit 0 a fetch of no positions has panicked.
C18_Witness ==
    /\ pc = "fetch_panicked"
    /\ dht_parallelization_limit = 0
    /\ positions = <<>>
    /\ sent = <<>>

\* C19: with a parallelism limit of 0 insert_into_dht has no bound on its
\* outstanding puts: a cell that is left can always become a put, so all n
\* puts can be outstanding at once; the ratio returned is still 1 - k/n.
C19_ZeroLimitInsertUnbounded ==
    dht_parallelization_limit = 0 =>
        /\ (pc = "inserting" /\ Issued(puts) # DOMAIN puts) => ENABLED PutIssue
        /\ (pc = "insert_returned" /\ Len(insert_cells) > 0) =>
              /\ ratio = success_ratio(Cardinality(FailedPuts), Len(insert_cells))
              /\ NearRatio(ratio, Cardinality(FailedPuts), Len(insert_cells))

\* C19 witness: limit 0, four cells, all four puts outstanding.
C19_Witness ==
    /\ pc = "inserting"
    /\ dht_parallelization_limit = 0
    /\ Len(insert_cells) = 4
    /\ InFlightCount(puts) = 4

(***************************************************************************)
(* events_stream                                                           *)
(***************************************************************************)
\* A call of events_stream ends in one step: with the receiver dropped it
\* panics, nothing being sent or returned; otherwise it sends one Stream with
\* the sender of a channel not used before and returns that channel's
\* receiver, no reply channel being made.  No other call ends by a panic:
\* the others return the error of the failed send.
C20_PanicsOrStreams ==
    /\ (pc = "idle" /\ pc' \in {"events_returned", "events_panicked"}) =>
          /\ streams' = streams + 1
          /\ oneshot' = oneshot
          /\ IF receiver_alive
             THEN /\ pc' = "events_returned"
                  /\ sent' = <<Stream(streams')>>
                  /\ admin_result' = Ok(streams')
             ELSE /\ pc' = "events_panicked"
                  /\ sent' = <<>>
                  /\ admin_result' = admin_result
    /\ (pc' = "events_panicked" /\ pc # pc') => (pc = "idle" /\ ~receiver_alive)
    /\ (pc' = "events_returned" /\ pc # pc') => pc = "idle"
    /\ (~receiver_alive /\ SendsAdminCommand) => (pc' = "admin_returned" /\ ~admin_result'.ok)
C20_StreamSent ==
    /\ pc = "events_panicked" => (~receiver_alive /\ sent = <<>> /\ admin_result = None)
    /\ pc = "events_returned" =>
          /\ Len(sent) = 1
          /\ sent[1].type = "Stream"
          /\ sent[1].sender = streams
          /\ admin_result = Ok(sent[1].sender)
          /\ oneshot = NoChannel

\* C20: events_stream does not turn a severed command channel into an error
\* value: called with the command receiver gone it panics; with the channel
\* alive it sends exactly one Stream command with a fresh event sender and
\* returns the matching receiver, waiting for no reply.
C20_EventsStream == [](C20_StreamSent) /\ [][C20_PanicsOrStreams]_vars

\* C20 witness: events_stream called after the engine dropped the command
\* receiver has panicked.
C20_Witness ==
    /\ pc = "events_panicked"
    /\ ~receiver_alive
    /\ sent = <<>>
    /\ streams = 1

====
